---- MODULE Spec2Model ----
(***************************************************************************)
(* Provider abstraction and resilient invocation layer of the prompt       *)
(* enhancement MCP server: withRetry (providers/base-provider.ts), the     *)
(* provider constructors, createProvider (providers/index.ts) and          *)
(* EnhancementService.enhance (services/enhancement-service.ts).           *)
(*                                                                         *)
(* JavaScript values are represented as follows.                           *)
(*   string | undefined : a TLA+ string, Undefined standing for undefined  *)
(*   thrown value       : a record [isError, nullish, status, text,        *)
(*                        origin, at, by]; status is {} when the value has *)
(*                        no status field and {n} when it has status n;    *)
(*                        text is the message (String(v) for a value that  *)
(*                        is no Error) as a sequence of tokens; origin, at *)
(*                        and by give the object its identity: the place   *)
(*                        that created it, the invocation index and the    *)
(*                        call it was created in.                          *)
(***************************************************************************)
EXTENDS Integers, Sequences, FiniteSets, TLC

VARIABLES
    env,      \* process.env: environment variable name -> string | undefined
    config,   \* the application Config held by the service
    calls,    \* call id -> the state of that asynchronous call
    factory   \* the last direct createProvider or constructor call: its
              \* inputs and its result

vars == <<env, config, calls, factory>>

\* ------------------------------------------------------------------ bounds
\* Largest maxRetries argument of a direct withRetry call.
MaxRetriesArg == 3
\* Number of direct createProvider and constructor calls in one behaviour.
MaxFactoryCalls == 1
\* Largest configured options.maxContextMessages.
MaxContextArg == 3

\* ------------------------------------------------------- program constants
DefaultMaxRetries == 3
DefaultBaseDelay == 1000
\* const MAX_TEXT_LENGTH = 100_000 of server.ts
MAX_TEXT_LENGTH == 100000
\* The cap of sanitizeErrorMessage.
MaxMessageLength == 500

CallIds == {"c1", "c2"}

Undefined == "<undefined>"

\* JavaScript truthiness of a string | undefined.
Truthy(s) == s # Undefined /\ s # ""

\* a || b on strings.
Or(a, b) == IF Truthy(a) THEN a ELSE b

\* ------------------------------------------------------------ thrown values
NoError ==
    [isError |-> FALSE, nullish |-> TRUE, status |-> {}, text |-> <<"undefined">>,
     origin |-> "none", at |-> 0, by |-> "none"]

\* What an underlying operation can fail with (identity fields left open).
ThrownShapes ==
    { [isError |-> TRUE,  nullish |-> FALSE, status |-> {},    text |-> <<"timeout">>],
      [isError |-> TRUE,  nullish |-> FALSE, status |-> {500}, text |-> <<"Service Unavailable">>],
      [isError |-> TRUE,  nullish |-> FALSE, status |-> {400}, text |-> <<"Bad Request">>],
      [isError |-> TRUE,  nullish |-> FALSE, status |-> {401}, text |-> <<"Unauthorized">>],
      [isError |-> TRUE,  nullish |-> FALSE, status |-> {403}, text |-> <<"Forbidden">>],
      [isError |-> FALSE, nullish |-> FALSE, status |-> {},    text |-> <<"boom">>],
      [isError |-> FALSE, nullish |-> FALSE, status |-> {401}, text |-> <<"[object Object]">>],
      [isError |-> FALSE, nullish |-> TRUE,  status |-> {},    text |-> <<"null">>] }

\* The object the n-th invocation of call c throws.
Thrown(shape, c, n) ==
    [isError |-> shape.isError, nullish |-> shape.nullish, status |-> shape.status,
     text |-> shape.text, origin |-> "fn", at |-> n, by |-> c]

\* Mutant: every caught value is wrapped in a new Error.
ToError_AlwaysWrap(e) ==
    [isError |-> TRUE, nullish |-> FALSE, status |-> {}, text |-> e.text,
     origin |-> "withRetry.wrap", at |-> e.at, by |-> e.by]

\* error instanceof Error ? error : new Error(String(error))
ToError(e) ==
    IF e.isError THEN e
    ELSE [isError |-> TRUE, nullish |-> FALSE, status |-> {}, text |-> e.text,
          origin |-> "withRetry.wrap", at |-> e.at, by |-> e.by]

\* Reading .status of null or undefined throws this TypeError.
StatusTypeError(e) ==
    [isError |-> TRUE, nullish |-> FALSE, status |-> {},
     text |-> <<"Cannot read properties of ", e.text[1], " (reading 'status')">>,
     origin |-> "withRetry.status", at |-> e.at, by |-> e.by]

\* status === 401 || status === 403 || status === 400
IsTerminalStatus(e) == e.status \cap {401, 403, 400} # {}

\* The token occurs in the text.
Contains(text, token) == \E i \in 1 .. Len(text) : text[i] = token

\* An Error object created by this repository's code in call c.
NewError(text, origin, c) ==
    [isError |-> TRUE, nullish |-> FALSE, status |-> {}, text |-> text,
     origin |-> origin, at |-> 0, by |-> c]

\* ------------------------------------------------------------ configuration
KnownNames == {"anthropic", "openai", "openrouter", "gemini", "openai-compatible"}

\* The names a caller may ask for: the known ones and some that are not.
AllNames == KnownNames \cup {"unsupported", "Anthropic", ""}

ENV_KEY_MAP ==
    [n \in KnownNames |->
        CASE n = "anthropic" -> "ANTHROPIC_API_KEY"
          [] n = "openai" -> "OPENAI_API_KEY"
          [] n = "openrouter" -> "OPENROUTER_API_KEY"
          [] n = "gemini" -> "GEMINI_API_KEY"
          [] n = "openai-compatible" -> "OPENAI_COMPATIBLE_API_KEY"]

EnvVars == {ENV_KEY_MAP[n] : n \in KnownNames}

\* const envVar = ENV_KEY_MAP[providerName]; return envVar ? process.env[envVar] : undefined
getApiKeyFromEnv(providerName, e) ==
    IF providerName \in DOMAIN ENV_KEY_MAP
    THEN e[ENV_KEY_MAP[providerName]]
    ELSE Undefined

DEFAULT_MODELS ==
    [n \in KnownNames |->
        CASE n = "anthropic" -> "claude-sonnet-4-5-20250929"
          [] n = "openai" -> "gpt-4o"
          [] n = "openrouter" -> "anthropic/claude-sonnet-4-5-20250929"
          [] n = "gemini" -> "gemini-2.0-flash"
          [] n = "openai-compatible" -> "gpt-3.5-turbo"]

\* Mutant: the table is ignored.
getDefaultModel_FallbackOnly(providerName) == "gpt-3.5-turbo"

\* DEFAULT_MODELS[providerName] || "gpt-3.5-turbo"
getDefaultModel(providerName) ==
    IF providerName \in DOMAIN DEFAULT_MODELS
    THEN DEFAULT_MODELS[providerName]
    ELSE "gpt-3.5-turbo"

\* A ProviderConfig with every field absent: the {} of config.providers?.[name] ?? {}.
EmptyProviderConfig ==
    [apiKey |-> Undefined, model |-> Undefined, baseUrl |-> Undefined]

\* config.providers?.[name] ?? {}
StoredProviderConfig(cfg, name) ==
    IF name \in DOMAIN cfg.providers THEN cfg.providers[name] ELSE EmptyProviderConfig

\* Mutant: every string parses as an https URL.
UrlProtocol_AcceptAll(s) == "https:"

\* new URL(s).protocol, "invalid" when new URL(s) throws a TypeError.
UrlProtocol(s) ==
    CASE s = "https://openrouter.ai/api/v1" -> "https:"
      [] s = "https://api.example.com/v1" -> "https:"
      [] s = "http://localhost:11434/v1" -> "http:"
      [] s = "file:///etc/passwd" -> "file:"
      [] OTHER -> "invalid"

\* ---------------------------------------------------------------- providers
\* A provider instance: its readonly name and model, what its vendor client
\* was set up with, and the call that constructed it (its identity).
NoInstance ==
    [name |-> Undefined, model |-> Undefined, clientKey |-> Undefined,
     baseURL |-> Undefined, by |-> "none"]

Constructed(inst) == [threw |-> FALSE, error |-> NoError, instance |-> inst]

CtorThrows(e) == [threw |-> TRUE, error |-> e, instance |-> NoInstance]

\* Mutant: the model is defaulted with ?? and an empty model is kept.
AnthropicProvider_Nullish(cfg, c) ==
    Constructed([name |-> "anthropic",
                 model |-> IF cfg.model = Undefined THEN "claude-sonnet-4-5-20250929"
                           ELSE cfg.model,
                 clientKey |-> cfg.apiKey,
                 baseURL |-> Undefined, by |-> c])

\* new AnthropicProvider(config)
AnthropicProvider(cfg, c) ==
    Constructed([name |-> "anthropic",
                 model |-> Or(cfg.model, "claude-sonnet-4-5-20250929"),
                 clientKey |-> cfg.apiKey,
                 baseURL |-> Undefined, by |-> c])

\* Mutant: the constructor accepts a missing key.
GeminiProvider_NoKeyCheck(cfg, c) ==
    Constructed([name |-> "gemini",
                 model |-> Or(cfg.model, "gemini-2.0-flash"),
                 clientKey |-> cfg.apiKey,
                 baseURL |-> Undefined, by |-> c])

\* new GeminiProvider(config)
GeminiProvider(cfg, c) ==
    IF ~Truthy(cfg.apiKey)
    THEN CtorThrows(NewError(<<"Gemini API key is required">>, "GeminiProvider", c))
    ELSE Constructed([name |-> "gemini",
                      model |-> Or(cfg.model, "gemini-2.0-flash"),
                      clientKey |-> cfg.apiKey,
                      baseURL |-> Undefined, by |-> c])

\* Mutant: no name requires a key.
RequiresKey_Never(name) == FALSE

\* name === "openai" || name === "openrouter"
RequiresKey(name) == name = "openai" \/ name = "openrouter"

\* new OpenAiCompatibleProvider(name, config)
OpenAiCompatibleProvider(name, cfg, c) ==
    IF Truthy(cfg.baseUrl) /\ UrlProtocol(cfg.baseUrl) = "invalid"
    THEN CtorThrows(NewError(<<"Invalid baseUrl for provider \"", name,
                               "\": not a valid URL">>,
                             "OpenAiCompatibleProvider.url", c))
    ELSE IF Truthy(cfg.baseUrl) /\ UrlProtocol(cfg.baseUrl) \notin {"http:", "https:"}
    THEN CtorThrows(NewError(<<"Invalid baseUrl protocol \"", UrlProtocol(cfg.baseUrl),
                               "\" for provider \"", name,
                               "\". Only http: and https: are allowed.">>,
                             "OpenAiCompatibleProvider.protocol", c))
    ELSE IF ~Truthy(cfg.apiKey) /\ RequiresKey(name)
    THEN CtorThrows(NewError(<<"API key is required for provider \"", name,
                               "\". Set the ",
                               IF name = "openai" THEN "OPENAI_API_KEY"
                                                  ELSE "OPENROUTER_API_KEY",
                               " environment variable.">>,
                             "OpenAiCompatibleProvider.key", c))
    ELSE Constructed([name |-> name,
                      model |-> Or(cfg.model, "gpt-4o"),
                      clientKey |-> Or(cfg.apiKey, ""),
                      baseURL |-> cfg.baseUrl, by |-> c])

\* ----------------------------------------------------------- createProvider
\* Mutant: the stored key wins over the environment.
ResolveApiKey_StoredFirst(envKey, storedKey) == Or(storedKey, envKey)

\* apiKey: apiKey || providerConfig.apiKey
ResolveApiKey(envKey, storedKey) == Or(envKey, storedKey)

\* Mutant: the stored model wins over the call-time override.
ResolveModel_StoredFirst(modelOverride, storedModel, name) ==
    Or(Or(storedModel, modelOverride), getDefaultModel(name))

\* model: modelOverride || providerConfig.model || getDefaultModel(name)
ResolveModel(modelOverride, storedModel, name) ==
    Or(Or(modelOverride, storedModel), getDefaultModel(name))

\* const resolvedConfig = { ...providerConfig, apiKey: ..., model: ... }
ResolvedConfig(name, cfg, e, modelOverride) ==
    LET providerConfig == StoredProviderConfig(cfg, name)
    IN  [providerConfig EXCEPT
            !.apiKey = ResolveApiKey(getApiKeyFromEnv(name, e), providerConfig.apiKey),
            !.model = ResolveModel(modelOverride, providerConfig.model, name)]

\* Mutant: the message leaves the requested name out.
UnsupportedMessage_NoName(name) ==
    <<"Unsupported provider. Supported: ",
      "anthropic", ", ", "openai", ", ", "openrouter", ", ", "gemini", ", ",
      "openai-compatible">>

\* The message of the default branch of the switch.
UnsupportedMessage(name) ==
    <<"Unsupported provider: ", name, ". Supported: ",
      "anthropic", ", ", "openai", ", ", "openrouter", ", ", "gemini", ", ",
      "openai-compatible">>

\* Mutant: every call is handed one shared instance.
Made_Shared(ctor, arg) ==
    [threw |-> ctor.threw, error |-> ctor.error,
     instance |-> IF ctor.threw THEN ctor.instance
                  ELSE [ctor.instance EXCEPT !.by = "shared"],
     ctorArg |-> arg, ctorCalls |-> 1]

\* The result of createProvider: the instance returned or the error thrown,
\* with the ProviderConfig handed to the constructor (ctorArg) and the number
\* of constructors invoked (ctorCalls).
Made(ctor, arg) ==
    [threw |-> ctor.threw, error |-> ctor.error, instance |-> ctor.instance,
     ctorArg |-> arg, ctorCalls |-> 1]

\* Mutant: the "openrouter" branch hands resolvedConfig on as it is.
EndpointDefaulted_None(resolvedConfig) == resolvedConfig

\* { ...resolvedConfig, baseUrl: resolvedConfig.baseUrl || "https://openrouter.ai/api/v1" }
EndpointDefaulted(resolvedConfig) ==
    [resolvedConfig EXCEPT
        !.baseUrl = Or(resolvedConfig.baseUrl, "https://openrouter.ai/api/v1")]

\* switch (name) { ... }
Dispatch(name, resolvedConfig, c) ==
    CASE name = "anthropic" ->
            Made(AnthropicProvider(resolvedConfig, c), resolvedConfig)
      [] name = "openai" ->
            Made(OpenAiCompatibleProvider("openai", resolvedConfig, c), resolvedConfig)
      [] name = "openrouter" ->
            LET arg == EndpointDefaulted(resolvedConfig)
            IN  Made(OpenAiCompatibleProvider("openrouter", arg, c), arg)
      [] name = "gemini" ->
            Made(GeminiProvider(resolvedConfig, c), resolvedConfig)
      [] name = "openai-compatible" ->
            Made(OpenAiCompatibleProvider("openai-compatible", resolvedConfig, c),
                 resolvedConfig)
      [] OTHER ->
            [threw |-> TRUE,
             error |-> NewError(UnsupportedMessage(name), "createProvider", c),
             instance |-> NoInstance,
             ctorArg |-> EmptyProviderConfig, ctorCalls |-> 0]

\* createProvider(name, config, modelOverride), run in call c with environment e.
createProvider(name, cfg, e, modelOverride, c) ==
    Dispatch(name, ResolvedConfig(name, cfg, e, modelOverride), c)

\* Mutant: the resolved values are written into the stored record
\* (Object.assign(providerConfig, ...) in place of the spread).
ConfigAfterCreateProvider_WriteBack(name, cfg, e, modelOverride) ==
    IF name \in DOMAIN cfg.providers
    THEN [cfg EXCEPT !.providers[name] =
            IF name = "openrouter"
            THEN EndpointDefaulted(ResolvedConfig(name, cfg, e, modelOverride))
            ELSE ResolvedConfig(name, cfg, e, modelOverride)]
    ELSE cfg

\* The Config object after createProvider(name, config, modelOverride):
\* resolvedConfig and the argument of the "openrouter" branch are new objects
\* made with a spread, and nothing is assigned to config or to a stored record.
ConfigAfterCreateProvider(name, cfg, e, modelOverride) == cfg

\* --------------------------------------------------------------- call state
Ev(kind, attempt, arg) == [ev |-> kind, attempt |-> attempt, arg |-> arg]

NoResult == [type |-> "none", value |-> "", error |-> NoError]

\* EnhanceOptions; an absent template or context is the empty sequence, which
\* the code treats as it treats an empty one.
NoOptions ==
    [text |-> <<>>, provider |-> Undefined, model |-> Undefined,
     context |-> <<>>, template |-> <<>>]

\* EnhanceResult
NoEnhanceResult ==
    [success |-> FALSE, enhancedText |-> Undefined, provider |-> Undefined,
     model |-> Undefined]

\* The settlement of the promise enhance returns.
NoOutcome == [type |-> "none", value |-> NoEnhanceResult, error |-> NoError]

\* The text argument of a tool call: undefined, a string (of a length, with the
\* tokens standing for its characters) or a number.
NoText == [type |-> "undefined", length |-> 0, tokens |-> <<>>]

\* A CallTool request: params.name and params.arguments (absent when
\* hasArguments is false).
NoToolRequest ==
    [name |-> Undefined, hasArguments |-> FALSE, text |-> NoText,
     provider |-> Undefined, model |-> Undefined, context |-> <<>>, template |-> <<>>]

\* The value the handler returns; isError false stands for no isError key.
NoResponse ==
    [text |-> <<>>, isError |-> FALSE, hasMeta |-> FALSE,
     provider |-> Undefined, model |-> Undefined]

\* The CallTool handler of a call: not run, awaiting enhance, threw or returned.
NoHandler ==
    [state |-> "none", request |-> NoToolRequest, error |-> NoError,
     response |-> NoResponse]

IdleCall ==
    [kind |-> "none", pc |-> "idle",
     maxRetries |-> DefaultMaxRetries, baseDelay |-> DefaultBaseDelay,
     attempt |-> 0, lastError |-> NoError,
     results |-> <<>>, responses |-> <<>>, inflight |-> 0, log |-> <<>>,
     result |-> NoResult,
     options |-> NoOptions, prompt |-> <<>>, provider |-> NoInstance,
     created |-> 0, completeCalls |-> 0, sent |-> <<>>, outcome |-> NoOutcome,
     handler |-> NoHandler]

\* ---------------------------------------------------------------- withRetry
\* Math.pow(2, attempt)
Pow2(n) == 2 ^ n

\* Mutant: a linear backoff.
Delay_Linear(baseDelay, attempt) == baseDelay * (attempt + 1)

\* const delay = baseDelay * Math.pow(2, attempt)
Delay(baseDelay, attempt) == baseDelay * Pow2(attempt)

\* The promise of withRetry settles: fulfilled with v, or rejected with e.
Resolve(r, v) ==
    [r EXCEPT !.pc = "done",
              !.result = [type |-> "value", value |-> v, error |-> NoError]]

Reject(r, e) ==
    [r EXCEPT !.pc = "done",
              !.result = [type |-> "error", value |-> "", error |-> e]]

\* return await fn(): the operation is invoked and the call suspends on it.
Invoke(r) ==
    [r EXCEPT !.pc = "awaitFn",
              !.inflight = @ + 1,
              !.sent = Append(@, r.prompt),
              !.log = Append(@, Ev("invoke", r.attempt, 0))]

\* Mutant: the attempt counter is shared by all calls (a module-level variable).
LoopHead_SharedCounter(r) ==
    LET shared == CHOOSE a \in {calls[d].attempt : d \in CallIds} \cup {r.attempt} :
                     \A d \in CallIds : a >= calls[d].attempt /\ a >= r.attempt
    IN  IF shared <= r.maxRetries
        THEN Invoke([r EXCEPT !.attempt = shared])
        ELSE Reject(r, r.lastError)

\* Mutant: the loop runs while attempt < maxRetries.
LoopHead_OffByOne(r) ==
    IF r.attempt < r.maxRetries THEN Invoke(r) ELSE Reject(r, r.lastError)

\* Mutant: the loop admits one attempt more than the budget.
LoopHead_ExtraAttempt(r) ==
    IF r.attempt <= r.maxRetries + 1 THEN Invoke(r) ELSE Reject(r, r.lastError)

\* The loop condition attempt <= maxRetries; past the loop, throw lastError.
LoopHead(r) ==
    IF r.attempt <= r.maxRetries THEN Invoke(r) ELSE Reject(r, r.lastError)

\* Mutant: the debug event is logged for the failure that exhausts the budget too.
Backoff_DebugAlways(r) ==
    IF r.attempt < r.maxRetries
    THEN [r EXCEPT !.pc = "sleeping",
                   !.log = @ \o << Ev("debug", r.attempt + 1, Delay(r.baseDelay, r.attempt)),
                                   Ev("sleep", r.attempt, Delay(r.baseDelay, r.attempt)) >>]
    ELSE LoopHead([r EXCEPT !.attempt = @ + 1,
                            !.log = Append(@, Ev("debug", r.attempt + 1,
                                                 Delay(r.baseDelay, r.attempt)))])

\* Mutant: the next attempt starts without waiting for the backoff sleep.
Backoff_NoSleep(r) == LoopHead([r EXCEPT !.attempt = @ + 1])

\* if (attempt < maxRetries) { delay; logger.debug(...); await setTimeout }
\* and, when no attempt remains, attempt++ and the loop condition.
Backoff(r) ==
    IF r.attempt < r.maxRetries
    THEN [r EXCEPT !.pc = "sleeping",
                   !.log = @ \o << Ev("debug", r.attempt + 1, Delay(r.baseDelay, r.attempt)),
                                   Ev("sleep", r.attempt, Delay(r.baseDelay, r.attempt)) >>]
    ELSE LoopHead([r EXCEPT !.attempt = @ + 1])

\* Mutant: no status is treated as terminal.
Catch_RetryAll(r, e) ==
    LET r1 == [r EXCEPT !.lastError = ToError(e)]
    IN  IF e.nullish THEN Reject(r1, StatusTypeError(e))
        ELSE Backoff(r1)

\* The catch block: normalise, remember, classify by status, back off.
Catch(r, e) ==
    LET r1 == [r EXCEPT !.lastError = ToError(e)]
    IN  IF e.nullish THEN Reject(r1, StatusTypeError(e))
        ELSE IF IsTerminalStatus(e) THEN Reject(r1, ToError(e))
        ELSE Backoff(r1)

\* Mutant: the value of fn() is awaited but not returned, so the loop goes on.
OnFulfilled_NoReturn(r, v) ==
    LoopHead([r EXCEPT !.inflight = @ - 1,
                       !.results = Append(@, [ok |-> TRUE, value |-> v, error |-> NoError]),
                       !.log = Append(@, Ev("fulfilled", r.attempt, 0)),
                       !.attempt = @ + 1])

\* fn()'s promise fulfils with v: return it.
OnFulfilled(r, v) ==
    Resolve([r EXCEPT !.inflight = @ - 1,
                      !.results = Append(@, [ok |-> TRUE, value |-> v, error |-> NoError]),
                      !.log = Append(@, Ev("fulfilled", r.attempt, 0))], v)

\* fn()'s promise rejects with e: run the catch block.
OnRejected(r, e) ==
    Catch([r EXCEPT !.inflight = @ - 1,
                    !.results = Append(@, [ok |-> FALSE, value |-> "", error |-> e]),
                    !.log = Append(@, Ev("rejected", r.attempt, 0))], e)

\* The backoff timer fires: attempt++ and the loop condition.
OnTimer(r) ==
    LoopHead([r EXCEPT !.attempt = @ + 1,
                       !.log = Append(@, Ev("wake", r.attempt, 0))])

\* withRetry(fn, maxRetries, baseDelay) is called.
EnterWithRetry(r, maxRetries, baseDelay) ==
    LoopHead([r EXCEPT !.maxRetries = maxRetries, !.baseDelay = baseDelay,
                       !.attempt = 0, !.lastError = NoError])

\* Values a generic operation can fulfil with.
FnValues == {"ok", ""}

RetryArgs == 0 .. MaxRetriesArg
DelayArgs == {DefaultBaseDelay, 250}

\* ------------------------------------------------------ vendor responses
\* A vendor response is a sequence of items [type, text]: the content blocks
\* of an Anthropic message, the choices of a chat completion (type "message"
\* when the choice has a message, text Undefined when its content is null),
\* or the one text of a Gemini result.
VendorResponses(name) ==
    IF name = "anthropic"
    THEN { <<>>,
           << [type |-> "tool_use", text |-> ""] >>,
           << [type |-> "text", text |-> "Enhanced"] >>,
           << [type |-> "tool_use", text |-> ""], [type |-> "text", text |-> "Enhanced"] >> }
    ELSE IF name = "gemini"
    THEN { << [type |-> "text", text |-> "Enhanced"] >>,
           << [type |-> "text", text |-> ""] >> }
    ELSE { <<>>,
           << [type |-> "message", text |-> Undefined] >>,
           << [type |-> "message", text |-> "Enhanced"] >> }

\* response.content.find((c) => c.type === "text"); textContent?.type === "text" ? textContent.text : ""
AnthropicExtract(resp) ==
    LET hits == {i \in 1 .. Len(resp) : resp[i].type = "text"}
    IN  IF hits = {} THEN ""
        ELSE resp[CHOOSE i \in hits : \A j \in hits : i <= j].text

\* Mutant: the content is returned as it is, without the ?? "".
OpenAiExtract_Raw(resp) ==
    IF Len(resp) = 0 THEN Undefined ELSE resp[1].text

\* response.choices[0]?.message?.content ?? ""
OpenAiExtract(resp) ==
    IF Len(resp) = 0 THEN ""
    ELSE IF resp[1].type # "message" THEN ""
    ELSE IF resp[1].text = Undefined THEN ""
    ELSE resp[1].text

\* result.response.text()
GeminiExtract(resp) == resp[1].text

\* The value the operation passed to withRetry fulfils with.
Extract(name, resp) ==
    IF name = "anthropic" THEN AnthropicExtract(resp)
    ELSE IF name = "gemini" THEN GeminiExtract(resp)
    ELSE OpenAiExtract(resp)

\* ------------------------------------------------------- EnhancementService
PLACEHOLDER == "${userInput}"

DEFAULT_ENHANCE_TEMPLATE ==
    << "Generate an enhanced version of this prompt (reply with only the enhanced prompt - no conversation, explanations, lead-in, bullet points, placeholders, or surrounding quotes):\n\n",
       PLACEHOLDER >>

\* a ?? b on an optional number, {} standing for undefined.
Coalesce(opt, default) == IF opt = {} THEN default ELSE CHOOSE n \in opt : TRUE

\* array.slice(-n)
SliceLast(seq, n) ==
    LET len == Len(seq)
        from == IF n > 0 THEN (IF len - n > 0 THEN len - n ELSE 0)
                ELSE (IF -n < len THEN -n ELSE len)
    IN  SubSeq(seq, from + 1, len)

\* msg.content.length > truncateLength ? msg.content.slice(0, truncateLength) + "..." : msg.content
\* (String.prototype.slice(0, n) with n < 0 counts from the end)
TruncateContent(content, truncateLength) ==
    IF Len(content) > truncateLength
    THEN LET upto == IF truncateLength >= 0 THEN truncateLength
                     ELSE (IF Len(content) + truncateLength > 0
                           THEN Len(content) + truncateLength ELSE 0)
         IN  SubSeq(content, 1, upto) \o <<"...">>
    ELSE content

\* `${msg.role}: ${content}`
FormatMessage(msg, truncateLength) ==
    <<msg.role, ": ">> \o TruncateContent(msg.content, truncateLength)

RECURSIVE JoinLines(_)
\* lines.join("\n")
JoinLines(lines) ==
    IF Len(lines) = 0 THEN <<>>
    ELSE IF Len(lines) = 1 THEN lines[1]
    ELSE lines[1] \o <<"\n">> \o JoinLines(Tail(lines))

\* EnhancementService.prepareInput(text, context)
prepareInput(text, context, cfg) ==
    IF Len(context) = 0 THEN text
    ELSE LET maxMessages == Coalesce(cfg.options.maxContextMessages, 10)
             truncateLength == Coalesce(cfg.options.contextTruncateLength, 500)
             sliced == SliceLast(context, maxMessages)
             lines == [i \in 1 .. Len(sliced) |-> FormatMessage(sliced[i], truncateLength)]
         IN  text
             \o <<"\n\nUse the following previous conversation context as needed:\n">>
             \o JoinLines(lines)

\* Mutant: the configured template wins over the request's.
ChooseTemplate_ConfigFirst(options, cfg) ==
    IF cfg.templates.default # <<>> THEN cfg.templates.default
    ELSE IF options.template # <<>> THEN options.template
    ELSE DEFAULT_ENHANCE_TEMPLATE

\* options.template || this.config.templates?.default || DEFAULT_ENHANCE_TEMPLATE
ChooseTemplate(options, cfg) ==
    IF options.template # <<>> THEN options.template
    ELSE IF cfg.templates.default # <<>> THEN cfg.templates.default
    ELSE DEFAULT_ENHANCE_TEMPLATE

\* templateStr.includes("${userInput}")
HasPlaceholder(templateStr) == Contains(templateStr, PLACEHOLDER)

FirstPlaceholder(templateStr) ==
    CHOOSE i \in 1 .. Len(templateStr) :
        /\ templateStr[i] = PLACEHOLDER
        /\ \A j \in 1 .. (i - 1) : templateStr[j] # PLACEHOLDER

RECURSIVE ExpandReplacement(_, _, _)
\* The replacement patterns String.prototype.replace expands in a replacement
\* string: $$ is "$", $& the match, $` the text before it, $' the text after it.
ExpandReplacement(replacement, before, after) ==
    IF Len(replacement) = 0 THEN <<>>
    ELSE LET t == Head(replacement)
             out == IF t = "$$" THEN <<"$">>
                    ELSE IF t = "$&" THEN <<PLACEHOLDER>>
                    ELSE IF t = "$`" THEN before
                    ELSE IF t = "$'" THEN after
                    ELSE <<t>>
         IN  out \o ExpandReplacement(Tail(replacement), before, after)

\* templateStr.replace("${userInput}", input)
ReplacePlaceholder(templateStr, input) ==
    LET i == FirstPlaceholder(templateStr)
        before == SubSeq(templateStr, 1, i - 1)
        after == SubSeq(templateStr, i + 1, Len(templateStr))
    IN  before \o ExpandReplacement(input, before, after) \o after

\* Mutant: a vendor call has been issued by the time enhance fails.
EnhanceRejects_AfterVendorCall(r, e) ==
    [r EXCEPT !.pc = "done",
              !.sent = Append(@, r.prompt),
              !.log = Append(@, Ev("invoke", r.attempt, 0)),
              !.outcome = [type |-> "error", value |-> NoEnhanceResult, error |-> e]]

\* The promise of enhance settles.
EnhanceRejects(r, e) ==
    [r EXCEPT !.pc = "done",
              !.outcome = [type |-> "error", value |-> NoEnhanceResult, error |-> e]]

\* Mutant: the result names what the request asked for.
EnhanceReturns_AsRequested(r, enhanced) ==
    [r EXCEPT !.pc = "done",
              !.outcome = [type |-> "value",
                           value |-> [success |-> TRUE, enhancedText |-> enhanced,
                                      provider |-> r.options.provider,
                                      model |-> r.options.model],
                           error |-> NoError]]

EnhanceReturns(r, enhanced) ==
    [r EXCEPT !.pc = "done",
              !.outcome = [type |-> "value",
                           value |-> [success |-> TRUE, enhancedText |-> enhanced,
                                      provider |-> r.provider.name,
                                      model |-> r.provider.model],
                           error |-> NoError]]

\* provider.completePrompt(prompt): return withRetry(async () => { ... })
completePrompt(r) ==
    EnterWithRetry([r EXCEPT !.completeCalls = @ + 1],
                   DefaultMaxRetries, DefaultBaseDelay)

\* enhance up to its await: prepare the input, choose and check the template,
\* substitute, resolve the provider and call completePrompt.
EnhanceBody(r, options, cfg, e, c) ==
    LET input == prepareInput(options.text, options.context, cfg)
        templateStr == ChooseTemplate(options, cfg)
        r0 == [r EXCEPT !.kind = "enhance", !.options = options]
    IN  IF ~HasPlaceholder(templateStr)
        THEN EnhanceRejects(r0, NewError(<<"Template must contain the ", PLACEHOLDER,
                                           " placeholder">>, "enhance", c))
        ELSE LET prompt == ReplacePlaceholder(templateStr, input)
                 providerName == Or(options.provider, cfg.defaultProvider)
                 made == createProvider(providerName, cfg, e, options.model, c)
                 r1 == [r0 EXCEPT !.prompt = prompt, !.created = @ + made.ctorCalls]
             IN  IF made.threw
                 THEN EnhanceRejects(r1, made.error)
                 ELSE completePrompt([r1 EXCEPT !.provider = made.instance])

\* Mutant: a failure of completePrompt is caught and reported in the result.
EnhanceContinue_Caught(r) ==
    IF r.kind = "enhance" /\ r.pc = "done" /\ r.outcome.type = "none"
    THEN IF r.result.type = "value"
         THEN EnhanceReturns(r, r.result.value)
         ELSE [r EXCEPT !.outcome = [type |-> "value",
                                     value |-> [success |-> FALSE, enhancedText |-> "",
                                                provider |-> r.provider.name,
                                                model |-> r.provider.model],
                                     error |-> NoError]]
    ELSE r

\* The continuation of enhance after await provider.completePrompt(prompt).
EnhanceContinue(r) ==
    IF r.kind = "enhance" /\ r.pc = "done" /\ r.outcome.type = "none"
    THEN IF r.result.type = "value"
         THEN EnhanceReturns(r, r.result.value)
         ELSE EnhanceRejects(r, r.result.error)
    ELSE r

\* ------------------------------------------------------ CallTool handler
\* error instanceof McpError: the errors the handler creates itself.
IsMcpError(e) == e.origin \in {"McpError.MethodNotFound", "McpError.InvalidParams"}

\* The matches of /\b(sk-|key-|api-|bearer\s+)[a-zA-Z0-9_-]{8,}\b/gi and of
\* /https?:\/\/[^\s)>"']+/gi among the tokens of the messages.
IsSecretToken(t) == t \in {"sk-abcdefgh12345678"}

IsUrlToken(t) ==
    t \in {"https://openrouter.ai/api/v1", "https://api.example.com/v1",
           "http://localhost:11434/v1", "https://internal.example/v1"}

RECURSIVE Flatten(_)
\* The message as one string.
Flatten(text) == IF Len(text) = 0 THEN "" ELSE Head(text) \o Flatten(Tail(text))

\* sanitizeErrorMessage(error) for an error that is no McpError: redact keys,
\* redact URLs, cap the length.
Sanitize(text) ==
    LET redacted == [i \in 1 .. Len(text) |->
                        IF IsSecretToken(text[i]) THEN "[REDACTED]"
                        ELSE IF IsUrlToken(text[i]) THEN "[URL_REDACTED]"
                        ELSE text[i]]
        flat == Flatten(redacted)
    IN  IF Len(flat) > MaxMessageLength
        THEN <<SubSeq(flat, 1, MaxMessageLength), "... (truncated)">>
        ELSE redacted

\* sanitizeErrorMessage(error)
sanitizeErrorMessage(e) == IF IsMcpError(e) THEN e.text ELSE Sanitize(e.text)

HandlerThrows(r, e) ==
    [r EXCEPT !.pc = "done", !.handler.state = "threw", !.handler.error = e]

HandlerReturns(r, response) ==
    [r EXCEPT !.pc = "done", !.handler.state = "returned", !.handler.response = response]

\* Mutant: a failure of enhance is rethrown by the handler.
HandlerContinue_Rethrow(r) ==
    IF r.handler.state = "pending" /\ r.outcome.type # "none"
    THEN IF r.outcome.type = "value"
         THEN HandlerReturns(r, [text |-> <<r.outcome.value.enhancedText>>,
                                 isError |-> FALSE, hasMeta |-> TRUE,
                                 provider |-> r.outcome.value.provider,
                                 model |-> r.outcome.value.model])
         ELSE HandlerThrows(r, r.outcome.error)
    ELSE r

\* The handler after await enhancementService.enhance(args): the return of the
\* try block, or the catch block.
HandlerContinue(r) ==
    IF r.handler.state = "pending" /\ r.outcome.type # "none"
    THEN IF r.outcome.type = "value"
         THEN HandlerReturns(r, [text |-> <<r.outcome.value.enhancedText>>,
                                 isError |-> FALSE, hasMeta |-> TRUE,
                                 provider |-> r.outcome.value.provider,
                                 model |-> r.outcome.value.model])
         ELSE IF IsMcpError(r.outcome.error)
         THEN HandlerThrows(r, r.outcome.error)
         ELSE HandlerReturns(r, [text |-> <<"Enhancement failed: ">>
                                            \o sanitizeErrorMessage(r.outcome.error),
                                 isError |-> TRUE, hasMeta |-> FALSE,
                                 provider |-> Undefined, model |-> Undefined])
    ELSE r

\* !args.text || typeof args.text !== "string"
TextRejected(text) ==
    \/ text.type = "undefined"
    \/ text.type = "string" /\ text.length = 0
    \/ text.type # "string"

\* Mutant: the length check is left out.
TooLong_Never(text) == FALSE

\* args.text.length > MAX_TEXT_LENGTH
TooLong(text) == text.length > MAX_TEXT_LENGTH

\* The handler of CallToolRequestSchema up to its await.
HandlerBody(r, request, cfg, e, c) ==
    LET r0 == [r EXCEPT !.handler.state = "pending", !.handler.request = request]
    IN  IF request.name # "enhance_prompt"
        THEN HandlerThrows(r0, NewError(<<"Unknown tool: ", request.name>>,
                                        "McpError.MethodNotFound", c))
        ELSE IF ~request.hasArguments
        THEN HandlerThrows(r0, NewError(<<"Cannot read properties of ", "undefined",
                                          " (reading 'text')">>, "handler.args", c))
        ELSE IF TextRejected(request.text)
        THEN HandlerThrows(r0, NewError(
                 <<"The 'text' parameter is required and must be a string">>,
                 "McpError.InvalidParams", c))
        ELSE IF TooLong(request.text)
        THEN HandlerThrows(r0, NewError(
                 <<"The 'text' parameter exceeds the maximum length of ", "100000",
                   " characters">>, "McpError.InvalidParams", c))
        ELSE HandlerContinue(
                 EnhanceBody(r0, [text |-> request.text.tokens,
                                  provider |-> request.provider,
                                  model |-> request.model,
                                  context |-> request.context,
                                  template |-> request.template], cfg, e, c))

\* ------------------------------------------------------------------ actions
\* A caller invokes withRetry directly on a generic operation.
WithRetryStart(c) ==
    /\ calls[c].pc = "idle"
    /\ \E mr \in RetryArgs, bd \in DelayArgs :
         calls' = [calls EXCEPT ![c] =
                     EnterWithRetry([calls[c] EXCEPT !.kind = "withRetry"], mr, bd)]
    /\ UNCHANGED <<env, config, factory>>

\* The underlying operation in flight completes successfully.
FnFulfils(c) ==
    /\ calls[c].pc = "awaitFn"
    /\ calls[c].kind = "withRetry"
    /\ \E v \in FnValues :
         calls' = [calls EXCEPT ![c] = OnFulfilled(calls[c], v)]
    /\ UNCHANGED <<env, config, factory>>

\* The underlying operation in flight fails.
FnRejects(c) ==
    /\ calls[c].pc = "awaitFn"
    /\ calls[c].kind = "withRetry"
    /\ \E s \in ThrownShapes :
         calls' = [calls EXCEPT ![c] =
                     OnRejected(calls[c], Thrown(s, c, Len(calls[c].results) + 1))]
    /\ UNCHANGED <<env, config, factory>>

\* The setTimeout of the backoff sleep fires.
TimerFires(c) ==
    /\ calls[c].pc = "sleeping"
    /\ calls' = [calls EXCEPT ![c] = HandlerContinue(EnhanceContinue(OnTimer(calls[c])))]
    /\ UNCHANGED <<env, config, factory>>

\* A caller invokes EnhancementService.enhance(options).
EnhanceStart(c, requests) ==
    /\ calls[c].pc = "idle"
    /\ \E options \in requests :
         calls' = [calls EXCEPT ![c] = EnhanceBody(calls[c], options, config, env, c)]
    /\ UNCHANGED <<env, config, factory>>

\* The vendor call in flight returns a response; the operation extracts its
\* text and withRetry returns it to completePrompt's caller.
VendorResponds(c) ==
    /\ calls[c].pc = "awaitFn"
    /\ calls[c].kind \in {"enhance", "completePrompt"}
    /\ \E resp \in VendorResponses(calls[c].provider.name) :
         calls' = [calls EXCEPT ![c] =
                     HandlerContinue(EnhanceContinue(
                         OnFulfilled([calls[c] EXCEPT !.responses = Append(@, resp)],
                                     Extract(calls[c].provider.name, resp))))]
    /\ UNCHANGED <<env, config, factory>>

\* The vendor call in flight fails.
VendorFails(c, shapes) ==
    /\ calls[c].pc = "awaitFn"
    /\ calls[c].kind \in {"enhance", "completePrompt"}
    /\ \E s \in shapes :
         calls' = [calls EXCEPT ![c] =
                     HandlerContinue(EnhanceContinue(
                         OnRejected(calls[c], Thrown(s, c, Len(calls[c].results) + 1))))]
    /\ UNCHANGED <<env, config, factory>>

\* An MCP client sends a CallTool request and the handler runs up to its await.
CallTool(c, requests) ==
    /\ calls[c].pc = "idle"
    /\ \E request \in requests :
         calls' = [calls EXCEPT ![c] = HandlerBody(calls[c], request, config, env, c)]
    /\ UNCHANGED <<env, config, factory>>

\* DEFAULT_CONFIG of config.ts, the providers map left open.
ConfigWith(providers) ==
    [defaultProvider |-> "anthropic",
     providers |-> providers,
     templates |-> [default |-> <<>>],
     options |-> [maxContextMessages |-> {10}, contextTruncateLength |-> {500}]]

NoProviders == [n \in {} |-> EmptyProviderConfig]

\* No environment variable set.
EmptyEnv == [v \in EnvVars |-> Undefined]

NoFactory ==
    [called |-> FALSE, n |-> 0, via |-> Undefined, name |-> Undefined,
     modelOverride |-> Undefined,
     out |-> [threw |-> FALSE, error |-> NoError, instance |-> NoInstance,
              ctorArg |-> EmptyProviderConfig, ctorCalls |-> 0]]

InitRetry ==
    /\ env = EmptyEnv
    /\ config = ConfigWith(NoProviders)
    /\ calls = [c \in CallIds |-> IdleCall]
    /\ factory = NoFactory

NextRetry ==
    \/ WithRetryStart("c1")
    \/ FnFulfils("c1")
    \/ FnRejects("c1")
    \/ TimerFires("c1")

SpecRetry == InitRetry /\ [][NextRetry]_vars

\* withRetry where every invocation of the operation completes (its promise
\* settles) and every timer set by the backoff sleep fires.
SpecRetryLive ==
    /\ InitRetry
    /\ [][NextRetry]_vars
    /\ WF_vars(FnFulfils("c1") \/ FnRejects("c1"))
    /\ WF_vars(TimerFires("c1"))

\* ------------------------------------------------- createProvider, directly
\* A caller (a test, the service) calls createProvider(name, config, modelOverride).
ModelOverrides == {Undefined, "", "gpt-4-turbo"}

CallCreateProvider ==
    /\ factory.n < MaxFactoryCalls
    /\ \E name \in AllNames, modelOverride \in ModelOverrides :
         /\ factory' = [called |-> TRUE, n |-> factory.n + 1, via |-> "createProvider",
                        name |-> name, modelOverride |-> modelOverride,
                        out |-> createProvider(name, config, env, modelOverride,
                                               "factory")]
         /\ config' = ConfigAfterCreateProvider(name, config, env, modelOverride)
    /\ UNCHANGED <<env, calls>>

\* The stored per-backend configurations and environments of the factory checks.
StoredKeys == {Undefined, "", "stored-key"}
StoredModels == {Undefined, "", "stored-model"}
StoredUrls == {Undefined, "", "https://api.example.com/v1", "file:///etc/passwd",
               "not-a-url"}

StoredConfigs == [apiKey : StoredKeys, model : StoredModels, baseUrl : StoredUrls]

\* config.providers with no entry, or with one entry.
ProviderMaps ==
    {NoProviders} \cup
    { [n \in {name} |-> pc] : name \in KnownNames \cup {"unsupported"}, pc \in StoredConfigs }

EnvKeys == {"", "env-key"}

\* process.env with no key variable set, or with one set.
Envs ==
    {EmptyEnv} \cup
    { [v \in EnvVars |-> IF v = var THEN k ELSE Undefined] : var \in EnvVars, k \in EnvKeys }

InitFactory ==
    /\ env \in Envs
    /\ config \in {ConfigWith(pm) : pm \in ProviderMaps}
    /\ calls = [c \in CallIds |-> IdleCall]
    /\ factory = NoFactory

NextFactory == CallCreateProvider

SpecFactory == InitFactory /\ [][NextFactory]_vars

\* ----------------------------------------------------- constructors, directly
\* The provider classes and the names a caller gives the OpenAI-compatible one.
ProviderClasses == {"AnthropicProvider", "GeminiProvider", "OpenAiCompatibleProvider"}

CtorNames == {"openai", "openrouter", "openai-compatible", "test"}

\* The ProviderConfig objects handed to a constructor.
CtorKeys == {Undefined, "", "test"}
CtorModels == {Undefined, "llama3"}
CtorUrls == StoredUrls \cup {"http://localhost:11434/v1"}

CtorConfigs == [apiKey : CtorKeys, model : CtorModels, baseUrl : CtorUrls]

\* new AnthropicProvider(cfg), new GeminiProvider(cfg) or
\* new OpenAiCompatibleProvider(name, cfg).
Construct(class, name, cfg, c) ==
    CASE class = "AnthropicProvider" -> AnthropicProvider(cfg, c)
      [] class = "GeminiProvider" -> GeminiProvider(cfg, c)
      [] class = "OpenAiCompatibleProvider" -> OpenAiCompatibleProvider(name, cfg, c)

\* A caller (a test) constructs a provider itself, with one of the configs.
CallConstructorOf(configs) ==
    /\ factory.n < MaxFactoryCalls
    /\ \E class \in ProviderClasses, cfg \in configs,
          name \in CtorNames \cup {Undefined} :
         /\ (name = Undefined) <=> (class # "OpenAiCompatibleProvider")
         /\ factory' = [called |-> TRUE, n |-> factory.n + 1, via |-> class,
                        name |-> name, modelOverride |-> Undefined,
                        out |-> Made(Construct(class, name, cfg, "factory"), cfg)]
    /\ UNCHANGED <<env, config, calls>>

CallConstructor == CallConstructorOf(CtorConfigs)

\* The caller invokes completePrompt on the provider it obtained.
CallCompletePrompt(c) ==
    /\ calls[c].pc = "idle"
    /\ factory.called
    /\ ~factory.out.threw
    /\ calls' = [calls EXCEPT ![c] =
                   completePrompt([calls[c] EXCEPT !.kind = "completePrompt",
                                                   !.prompt = <<"write a function">>,
                                                   !.provider = factory.out.instance])]
    /\ UNCHANGED <<env, config, factory>>

\* Stored configurations of the constructor checks: those of the single-call
\* checks and an empty stored Gemini key.
CtorProviderMaps ==
    { NoProviders,
      [n \in {"openai-compatible"} |->
          [apiKey |-> Undefined, model |-> "llama3", baseUrl |-> "http://localhost:11434/v1"]],
      [n \in {"openai"} |->
          [apiKey |-> "stored-key", model |-> Undefined, baseUrl |-> "not-a-url"]],
      [n \in {"gemini"} |->
          [apiKey |-> "", model |-> Undefined, baseUrl |-> Undefined]] }

InitCtor ==
    /\ env \in {EmptyEnv, [v \in EnvVars |-> "env-key"]}
    /\ config \in {ConfigWith(pm) : pm \in CtorProviderMaps}
    /\ calls = [c \in CallIds |-> IdleCall]
    /\ factory = NoFactory

NextCtor ==
    \/ CallConstructor
    \/ CallCreateProvider
    \/ CallCompletePrompt("c1")
    \/ VendorResponds("c1")

SpecCtor == InitCtor /\ [][NextCtor]_vars

\* Every key variable of the environment set.
AllKeysEnv == [v \in EnvVars |-> "env-key"]

\* ------------------------------------------------- the life of an instance
\* The configs of the instances that are followed through their calls: a key,
\* and a model that is absent, empty or given.
IdentityConfigs == [apiKey : {"test"}, model : {Undefined, "", "llama3"},
                    baseUrl : {Undefined}]

IdentityShapes == { s \in ThrownShapes : s.text \in {<<"timeout">>, <<"Unauthorized">>} }

InitIdentity ==
    /\ env = AllKeysEnv
    /\ config = ConfigWith(NoProviders)
    /\ calls = [c \in CallIds |-> IdleCall]
    /\ factory = NoFactory

NextIdentity ==
    \/ CallConstructorOf(IdentityConfigs)
    \/ CallCreateProvider
    \/ \E c \in CallIds :
          \/ CallCompletePrompt(c)
          \/ VendorResponds(c)
          \/ VendorFails(c, IdentityShapes)
          \/ TimerFires(c)

SpecIdentity == InitIdentity /\ [][NextIdentity]_vars

\* --------------------------------------------------- enhance, concurrently
Request(text, provider, model, context, template) ==
    [text |-> text, provider |-> provider, model |-> model,
     context |-> context, template |-> template]

\* The requests and vendor failures of the concurrent calls.
ConcRequests ==
    { Request(<<"write a function">>, p, Undefined, <<>>, <<>>) :
        p \in {Undefined, "gemini", "unsupported"} }

ConcShapes ==
    { s \in ThrownShapes : s.text \in {<<"timeout">>, <<"Unauthorized">>, <<"boom">>} }

Init ==
    /\ env = AllKeysEnv
    /\ config = ConfigWith(NoProviders)
    /\ calls = [c \in CallIds |-> IdleCall]
    /\ factory = NoFactory

Next ==
    \E c \in CallIds :
        \/ EnhanceStart(c, ConcRequests)
        \/ VendorResponds(c)
        \/ VendorFails(c, ConcShapes)
        \/ TimerFires(c)

Spec == Init /\ [][Next]_vars

\* ------------------------------------------------------- enhance, one call
Texts == { <<"write a function">>, <<"cost: ", "$$", "5">> }

Contexts ==
    { <<>>,
      << [role |-> "user", content |-> <<"h", "i">>],
         [role |-> "assistant", content |-> <<"h", "e", "l", "l", "o">>] >> }

Templates == { <<>>, <<"Improve: ", PLACEHOLDER>>, <<"Make this better">> }

Requests ==
    { Request(t, p, m, ctx, tpl) :
        t \in Texts, p \in {Undefined} \cup KnownNames \cup {"unsupported"},
        m \in {Undefined, "gpt-4-turbo"}, ctx \in Contexts, tpl \in Templates }

\* Stored configurations of the single-call checks: none, a local endpoint
\* without a key, a malformed endpoint, a stored Gemini key.
EnhanceProviderMaps ==
    { NoProviders,
      [n \in {"openai-compatible"} |->
          [apiKey |-> Undefined, model |-> "llama3", baseUrl |-> "http://localhost:11434/v1"]],
      [n \in {"openai"} |->
          [apiKey |-> "stored-key", model |-> Undefined, baseUrl |-> "not-a-url"]],
      [n \in {"gemini"} |->
          [apiKey |-> "stored-key", model |-> "", baseUrl |-> Undefined]] }

InitEnhance ==
    /\ env \in {EmptyEnv, AllKeysEnv}
    /\ config \in {ConfigWith(pm) : pm \in EnhanceProviderMaps}
    /\ calls = [c \in CallIds |-> IdleCall]
    /\ factory = NoFactory

NextEnhance ==
    \/ EnhanceStart("c1", Requests)
    \/ VendorResponds("c1")
    \/ VendorFails("c1", ThrownShapes)
    \/ TimerFires("c1")

SpecEnhance == InitEnhance /\ [][NextEnhance]_vars

\* ------------------------------------------------- properties: createProvider
\* The error is the one of createProvider's default branch.
IsUnsupportedError(e) ==
    /\ e.isError
    /\ Len(e.text) > 0
    /\ e.text[1] = "Unsupported provider: "

\* C8: createProvider fails for every name outside the five known identifiers
\* with an error whose message contains the requested name and the five known
\* identifiers, constructing no backend; for a known name it never raises the
\* unsupported-backend error.
C8_UnsupportedName ==
    factory.called =>
        /\ factory.name \notin KnownNames =>
              /\ factory.out.threw
              /\ IsUnsupportedError(factory.out.error)
              /\ Contains(factory.out.error.text, factory.name)
              /\ \A id \in KnownNames : Contains(factory.out.error.text, id)
              /\ factory.out.ctorCalls = 0
              /\ factory.out.instance = NoInstance
        /\ factory.name \in KnownNames =>
              ~(factory.out.threw /\ IsUnsupportedError(factory.out.error))

C8_Witness ==
    /\ factory.called
    /\ factory.name = "unsupported"
    /\ factory.out.threw
    /\ "unsupported" \in DOMAIN config.providers

\* C9: for a known name the backend's model is the call-time override when
\* non-empty, else the stored model when non-empty, else the compiled-in
\* default of that name.
C9_ModelPrecedence ==
    (factory.called /\ factory.name \in KnownNames /\ ~factory.out.threw) =>
        LET stored == StoredProviderConfig(config, factory.name).model
        IN  factory.out.instance.model =
               IF factory.modelOverride \notin {Undefined, ""} THEN factory.modelOverride
               ELSE IF stored \notin {Undefined, ""} THEN stored
               ELSE DEFAULT_MODELS[factory.name]

C9_Witness ==
    /\ factory.called
    /\ factory.name = "openai"
    /\ ~factory.out.threw
    /\ factory.modelOverride = "gpt-4-turbo"
    /\ StoredProviderConfig(config, "openai").model = "stored-model"
    /\ factory.out.instance.model = "gpt-4-turbo"

C11_EndpointInjectedForBoth ==
    (factory.called /\ factory.via = "createProvider"
       /\ factory.name \in {"openrouter", "openai"}) =>
        LET stored == StoredProviderConfig(config, factory.name).baseUrl
        IN  /\ factory.out.ctorCalls = 1
            /\ IF Truthy(stored)
               THEN factory.out.ctorArg.baseUrl = stored
               ELSE Truthy(factory.out.ctorArg.baseUrl)

\* C11 (amended): only "openrouter" gets a default endpoint,
\* https://openrouter.ai/api/v1, when the stored config has no (or an empty)
\* baseUrl; for every other known name, "openai" included, the constructor
\* receives the stored baseUrl as it is, an absent one staying absent; a
\* configured endpoint is passed through unchanged, and the backend built
\* hands that endpoint to its client.
C11_EndpointInjectedForOpenRouter ==
    (factory.called /\ factory.via = "createProvider"
       /\ factory.name \in KnownNames) =>
        LET stored == StoredProviderConfig(config, factory.name).baseUrl
        IN  /\ factory.out.ctorCalls = 1
            /\ factory.out.ctorArg.baseUrl =
                  IF factory.name = "openrouter" /\ stored \in {Undefined, ""}
                  THEN "https://openrouter.ai/api/v1"
                  ELSE stored
            /\ (~factory.out.threw /\ factory.name \notin {"anthropic", "gemini"}) =>
                  factory.out.instance.baseURL = factory.out.ctorArg.baseUrl

C11_Witness ==
    /\ factory.called
    /\ factory.via = "createProvider"
    /\ factory.name = "openrouter"
    /\ StoredProviderConfig(config, "openrouter").baseUrl = Undefined
    /\ ~factory.out.threw
    /\ factory.out.instance.baseURL = "https://openrouter.ai/api/v1"

\* ------------------------------------------------- properties: constructors
\* The last direct call ran the Gemini constructor with an absent or empty key.
GeminiWithoutKey ==
    /\ factory.called
    /\ \/ factory.via = "GeminiProvider"
       \/ factory.via = "createProvider" /\ factory.name = "gemini"
    /\ factory.out.ctorArg.apiKey \in {Undefined, ""}

\* C12: constructing the Gemini backend with an absent or empty key, directly
\* or through createProvider("gemini") with neither an environment key nor a
\* stored key, fails with "Gemini API key is required" and yields no backend;
\* so completePrompt is only ever invoked, and a vendor call only ever made,
\* on a Gemini backend that holds a non-empty key.
C12_GeminiKeyRequired ==
    /\ (factory.called /\ factory.via = "createProvider" /\ factory.name = "gemini"
          /\ env["GEMINI_API_KEY"] \in {Undefined, ""}
          /\ StoredProviderConfig(config, "gemini").apiKey \in {Undefined, ""})
         => GeminiWithoutKey
    /\ GeminiWithoutKey =>
          /\ factory.out.threw
          /\ factory.out.error.isError
          /\ factory.out.error.text = <<"Gemini API key is required">>
          /\ factory.out.instance = NoInstance
    /\ \A c \in CallIds :
          (calls[c].completeCalls > 0 \/ calls[c].sent # <<>>) =>
              /\ calls[c].provider # NoInstance
              /\ calls[c].provider.name = "gemini" => Truthy(calls[c].provider.clientKey)

C12_Witness ==
    /\ factory.called
    /\ factory.via = "createProvider"
    /\ factory.name = "gemini"
    /\ env["GEMINI_API_KEY"] = Undefined
    /\ StoredProviderConfig(config, "gemini").apiKey = ""
    /\ factory.out.threw
    /\ calls["c1"].completeCalls = 0

\* The last direct call ran the OpenAI-compatible constructor.
OpenAiCompatibleCall ==
    /\ factory.called
    /\ \/ factory.via = "OpenAiCompatibleProvider"
       \/ factory.via = "createProvider"
            /\ factory.name \in {"openai", "openrouter", "openai-compatible"}

\* Endpoint strings by what they are as URLs.
HttpUrls ==
    {"https://api.example.com/v1", "http://localhost:11434/v1",
     "https://openrouter.ai/api/v1"}
OtherSchemeUrls == {"file:///etc/passwd"}
NotUrls == {"not-a-url"}

\* The construction failed on its endpoint.
EndpointError(e) ==
    \/ Contains(e.text, "\": not a valid URL")
    \/ Contains(e.text, "\". Only http: and https: are allowed.")

\* C13: under every name, the OpenAI-compatible constructor given a non-empty
\* endpoint that is no URL fails with a "not a valid URL" error, given a URL
\* of a scheme other than http and https fails with an "Only http: and https:
\* are allowed" error, and given an http or https URL, or no endpoint, does
\* not fail on the endpoint; a rejected endpoint yields no backend.
C13_EndpointValidation ==
    OpenAiCompatibleCall =>
        LET url == factory.out.ctorArg.baseUrl
            e == factory.out.error
        IN  /\ url \in NotUrls =>
                  /\ factory.out.threw
                  /\ Contains(e.text, "\": not a valid URL")
                  /\ Contains(e.text, factory.name)
                  /\ factory.out.instance = NoInstance
            /\ url \in OtherSchemeUrls =>
                  /\ factory.out.threw
                  /\ Contains(e.text, "\". Only http: and https: are allowed.")
                  /\ Contains(e.text, factory.name)
                  /\ factory.out.instance = NoInstance
            /\ url \in HttpUrls \cup {Undefined, ""} =>
                  ~(factory.out.threw /\ EndpointError(e))
            /\ (url \in HttpUrls \cup {Undefined, ""} /\ ~factory.out.threw) =>
                  factory.out.instance.baseURL = url

C13_Witness ==
    /\ OpenAiCompatibleCall
    /\ factory.via = "OpenAiCompatibleProvider"
    /\ factory.name = "test"
    /\ factory.out.ctorArg.apiKey = "test"
    /\ factory.out.ctorArg.baseUrl = "file:///etc/passwd"
    /\ factory.out.threw

\* C14: the OpenAI-compatible constructor under the name "openai" or
\* "openrouter" with an absent or empty key fails with an error naming that
\* identifier (the key error, which also names the environment variable, when
\* the endpoint is acceptable); under "openai-compatible" with an absent key
\* and a valid endpoint it succeeds.
C14_KeyRequirement ==
    (OpenAiCompatibleCall /\ factory.out.ctorArg.apiKey \in {Undefined, ""}) =>
        LET url == factory.out.ctorArg.baseUrl
            e == factory.out.error
        IN  /\ factory.name \in {"openai", "openrouter"} =>
                  /\ factory.out.threw
                  /\ factory.out.instance = NoInstance
                  /\ Contains(e.text, factory.name)
                  /\ url \in HttpUrls \cup {Undefined, ""} =>
                        /\ e.text[1] = "API key is required for provider \""
                        /\ Contains(e.text, ENV_KEY_MAP[factory.name])
            /\ (factory.name = "openai-compatible" /\ url \in HttpUrls) =>
                  /\ ~factory.out.threw
                  /\ factory.out.instance.name = "openai-compatible"
                  /\ factory.out.instance.clientKey = ""

C14_Witness ==
    /\ OpenAiCompatibleCall
    /\ factory.via = "OpenAiCompatibleProvider"
    /\ factory.name = "openrouter"
    /\ factory.out.ctorArg.apiKey = Undefined
    /\ factory.out.ctorArg.baseUrl = "https://api.example.com/v1"
    /\ factory.out.threw

\* The identifier whose variant the last direct call constructed, and whether
\* the call supplied no model: no model field for a constructor, neither an
\* override nor a stored model for createProvider.
ConstructedIdentifier ==
    CASE factory.via = "AnthropicProvider" -> "anthropic"
      [] factory.via = "GeminiProvider" -> "gemini"
      [] OTHER -> factory.name

NoModelSupplied ==
    IF factory.via = "createProvider"
    THEN /\ factory.modelOverride \in {Undefined, ""}
         /\ StoredProviderConfig(config, factory.name).model \in {Undefined, ""}
    ELSE factory.out.ctorArg.model \in {Undefined, ""}

\* C15 (as stated): constructing the variant of a known identifier with no
\* model supplied yields that identifier's documented default model.
C15_DocumentedDefaultModel ==
    (factory.called /\ ~factory.out.threw /\ NoModelSupplied
       /\ ConstructedIdentifier \in KnownNames) =>
        factory.out.instance.model = DEFAULT_MODELS[ConstructedIdentifier]

\* C15 (amended): createProvider with no model supplied yields the documented
\* default model of the identifier; a constructor called directly with no
\* model yields the default of its class, which for the OpenAI-compatible
\* class is gpt-4o under every name.
C15_DefaultModelByPath ==
    (factory.called /\ ~factory.out.threw /\ NoModelSupplied) =>
        factory.out.instance.model =
            CASE factory.via = "createProvider" -> DEFAULT_MODELS[factory.name]
              [] factory.via = "AnthropicProvider" -> "claude-sonnet-4-5-20250929"
              [] factory.via = "GeminiProvider" -> "gemini-2.0-flash"
              [] factory.via = "OpenAiCompatibleProvider" -> "gpt-4o"

C15_Witness ==
    /\ factory.called
    /\ factory.via = "createProvider"
    /\ factory.name = "openrouter"
    /\ NoModelSupplied
    /\ ~factory.out.threw
    /\ factory.out.instance.model = "anthropic/claude-sonnet-4-5-20250929"

\* ------------------------------------------------------ properties: withRetry
TerminalStatuses == {400, 401, 403}

\* The outcome o of one invocation is a failure with a readable status field
\* that is none of 400, 401, 403 (or absent).
NonTerminalFailure(o) ==
    ~o.ok /\ ~o.error.nullish /\ o.error.status \cap TerminalStatuses = {}

TerminalFailure(o) ==
    ~o.ok /\ ~o.error.nullish /\ o.error.status \cap TerminalStatuses # {}

Events(r, kind) == {i \in 1 .. Len(r.log) : r.log[i].ev = kind}

Invocations(r) == Cardinality(Events(r, "invoke"))

Sleeps(r) == Cardinality(Events(r, "sleep"))

Last(seq) == seq[Len(seq)]

RECURSIVE SumSleeps(_)
SumSleeps(log) ==
    IF Len(log) = 0 THEN 0
    ELSE (IF Head(log).ev = "sleep" THEN Head(log).arg ELSE 0) + SumSleeps(Tail(log))

\* C1: when every invocation fails with a non-terminal error (a value whose
\* status can be read and is none of 400, 401, 403), withRetry raises after
\* exactly maxRetries + 1 invocations (4 with the default budget) and raises
\* the error of the final invocation, not an earlier one.
C1_ExhaustedBudget ==
    \A c \in CallIds :
        LET r == calls[c]
        IN  (/\ r.kind = "withRetry"
             /\ r.pc = "done"
             /\ \A i \in 1 .. Len(r.results) : NonTerminalFailure(r.results[i]))
            =>
            /\ Len(r.results) = r.maxRetries + 1
            /\ Invocations(r) = r.maxRetries + 1
            /\ (r.maxRetries = 3 => Invocations(r) = 4)
            /\ r.result.type = "error"
            /\ r.result.error.at = r.maxRetries + 1
            /\ r.result.error.text = Last(r.results).error.text
            /\ (Last(r.results).error.isError => r.result.error = Last(r.results).error)

C1_Witness ==
    LET r == calls["c1"]
    IN  /\ r.kind = "withRetry" /\ r.pc = "done"
        /\ r.maxRetries = 3 /\ r.baseDelay = 1000
        /\ Len(r.results) = 4
        /\ \A i \in 1 .. 4 : NonTerminalFailure(r.results[i])
        /\ r.results[3].error.text = <<"timeout">>
        /\ r.results[4].error.text = <<"Service Unavailable">>
        /\ r.result.error = r.results[4].error

\* C2: a failure with status 400, 401 or 403 at attempt a makes withRetry raise
\* the error of that invocation at once (the identical object when it is an
\* Error object): a + 1 invocations in total, the call settled, no further
\* invocation and no backoff sleep after that failure.
C2_TerminalImmediate ==
    \A c \in CallIds :
        LET r == calls[c]
        IN  (r.kind = "withRetry" /\ Len(r.results) > 0 /\ TerminalFailure(Last(r.results)))
            =>
            /\ r.pc = "done"
            /\ r.inflight = 0
            /\ r.result.type = "error"
            /\ r.result.error.at = Len(r.results)
            /\ r.result.error.text = Last(r.results).error.text
            /\ (Last(r.results).error.isError => r.result.error = Last(r.results).error)
            /\ Len(r.results) = r.attempt + 1
            /\ Invocations(r) = r.attempt + 1
            /\ Sleeps(r) = r.attempt
            /\ Last(r.log).ev = "rejected"
            /\ ~ENABLED (FnFulfils(c) \/ FnRejects(c) \/ TimerFires(c))

C2_Witness ==
    LET r == calls["c1"]
    IN  /\ r.kind = "withRetry" /\ r.pc = "done"
        /\ r.maxRetries = 3
        /\ Len(r.results) = 1
        /\ r.results[1].error.status = {401}
        /\ r.results[1].error.isError
        /\ r.result.error = r.results[1].error
        /\ Sleeps(r) = 0

\* C3: when the operation fails k times with non-terminal errors and then
\* succeeds, withRetry resolves with the value of the successful invocation
\* after exactly k + 1 invocations and k sleeps; nothing follows a success.
C3_SuccessAfterFailures ==
    \A c \in CallIds :
        LET r == calls[c]
            k == Cardinality({i \in 1 .. Len(r.results) : ~r.results[i].ok})
        IN  /\ \A i \in 1 .. (Len(r.results) - 1) : ~r.results[i].ok
            /\ (r.kind = "withRetry" /\ Len(r.results) > 0 /\ Last(r.results).ok)
               =>
               /\ r.pc = "done"
               /\ r.inflight = 0
               /\ r.result.type = "value"
               /\ r.result.value = Last(r.results).value
               /\ k <= r.maxRetries
               /\ \A i \in 1 .. k : NonTerminalFailure(r.results[i])
               /\ Len(r.results) = k + 1
               /\ Invocations(r) = k + 1
               /\ Sleeps(r) = k
               /\ Last(r.log).ev = "fulfilled"
               /\ ~ENABLED (FnFulfils(c) \/ FnRejects(c) \/ TimerFires(c))

C3_Witness ==
    LET r == calls["c1"]
    IN  /\ r.kind = "withRetry" /\ r.pc = "done"
        /\ r.maxRetries = 3 /\ r.baseDelay = 1000
        /\ Len(r.results) = 3
        /\ ~r.results[1].ok /\ ~r.results[2].ok /\ r.results[3].ok
        /\ r.result.type = "value" /\ r.result.value = "ok"
        /\ SumSleeps(r.log) = 3000

\* C4: the sleep after failed attempt a lasts baseDelay * 2^a ms (1000, 2000,
\* 4000 with the defaults), happens only when a < maxRetries, and the time
\* slept in one call is at most baseDelay * (2^maxRetries - 1): 7000 ms with
\* the defaults.
C4_BackoffSchedule ==
    \A c \in CallIds :
        LET r == calls[c]
        IN  /\ \A i \in Events(r, "sleep") :
                  LET a == r.log[i].attempt
                  IN  /\ r.log[i].arg = r.baseDelay * (2 ^ a)
                      /\ a < r.maxRetries
                      /\ i >= 4
                      /\ r.log[i - 2].ev = "rejected"
                      /\ r.log[i - 2].attempt = a
                      /\ Cardinality({j \in Events(r, "sleep") : j < i}) = a
                      /\ (r.baseDelay = 1000 /\ a <= 2) =>
                            r.log[i].arg = (CASE a = 0 -> 1000 [] a = 1 -> 2000 [] a = 2 -> 4000)
            /\ Sleeps(r) <= r.maxRetries
            /\ SumSleeps(r.log) <= r.baseDelay * ((2 ^ r.maxRetries) - 1)
            /\ (r.maxRetries = 3 /\ r.baseDelay = 1000) => SumSleeps(r.log) <= 7000
            /\ (r.pc = "done" /\ Len(r.results) = r.maxRetries + 1) =>
                  Last(r.log).ev \in {"rejected", "fulfilled"}

C4_Witness ==
    LET r == calls["c1"]
    IN  /\ r.kind = "withRetry" /\ r.pc = "done"
        /\ r.maxRetries = 3 /\ r.baseDelay = 1000
        /\ Len(r.results) = 4
        /\ Sleeps(r) = 3
        /\ SumSleeps(r.log) = 7000
        /\ Last(r.log).ev = "rejected"

\* ------------------------------------------- properties: calls of enhance
\* C5: within one call the attempts are strictly sequential: at most one
\* invocation of the underlying operation is in flight, and attempt a + 1
\* starts only after attempt a has failed and its backoff sleep has completed.
C5_SequentialAttempts ==
    \A c \in CallIds :
        LET r == calls[c]
            settled == Cardinality(Events(r, "fulfilled") \cup Events(r, "rejected"))
        IN  /\ r.inflight \in {0, 1}
            /\ r.inflight = Invocations(r) - settled
            /\ (r.inflight = 1) <=> (r.pc = "awaitFn")
            /\ \A i \in Events(r, "invoke") :
                  \/ i = 1 /\ r.log[i].attempt = 0
                  \/ /\ i >= 6
                     /\ r.log[i].attempt >= 1
                     /\ r.log[i - 1].ev = "wake"
                     /\ r.log[i - 1].attempt = r.log[i].attempt - 1
                     /\ r.log[i - 2].ev = "sleep"
                     /\ r.log[i - 2].attempt = r.log[i].attempt - 1
                     /\ r.log[i - 4].ev = "rejected"
                     /\ r.log[i - 4].attempt = r.log[i].attempt - 1
                     /\ r.log[i - 5].ev = "invoke"
                     /\ r.log[i - 5].attempt = r.log[i].attempt - 1

C5_Witness ==
    /\ calls["c1"].kind = "enhance" /\ calls["c1"].pc = "awaitFn"
    /\ Invocations(calls["c1"]) = 3 /\ calls["c1"].inflight = 1
    /\ calls["c2"].kind = "enhance" /\ calls["c2"].pc = "sleeping"
    /\ Invocations(calls["c2"]) = 2

\* A thrown value or a settlement without the mark of the call that made it.
Anon(e) == [e EXCEPT !.by = "any"]

AnonResults(r) ==
    [i \in 1 .. Len(r.results) |-> [r.results[i] EXCEPT !.error = Anon(@)]]

\* Where a call that entered withRetry must stop, given the outcomes of its
\* own invocations.
StopsAt(r, n) ==
    /\ n >= 1
    /\ \A i \in 1 .. (n - 1) : NonTerminalFailure(r.results[i])
    /\ \/ r.results[n].ok
       \/ r.results[n].error.nullish
       \/ TerminalFailure(r.results[n])
       \/ n = DefaultMaxRetries + 1

\* C6: concurrent calls are independent: the attempts, the delays and the
\* outcome of each call are those its own invocations' outcomes dictate, and
\* two calls given the same request and the same outcomes end the same way,
\* whatever the other call did meanwhile.
C6_IndependentCalls ==
    /\ \A c \in CallIds :
          LET r == calls[c]
              n == Len(r.results)
          IN  /\ (r.pc \in {"awaitFn", "sleeping"}) =>
                    /\ \A i \in 1 .. n : NonTerminalFailure(r.results[i])
                    /\ n <= DefaultMaxRetries
                    /\ r.attempt = (IF r.pc = "awaitFn" THEN n ELSE n - 1)
              /\ (r.pc = "done" /\ r.completeCalls = 1) =>
                    /\ StopsAt(r, n)
                    /\ Invocations(r) = n
                    /\ Sleeps(r) = n - 1
                    /\ SumSleeps(r.log) = DefaultBaseDelay * ((2 ^ (n - 1)) - 1)
                    /\ IF r.results[n].ok
                       THEN /\ r.outcome.type = "value"
                            /\ r.outcome.value.enhancedText = r.results[n].value
                       ELSE /\ r.outcome.type = "error"
                            /\ r.outcome.error.by = c
                            /\ r.outcome.error.at = n
                            /\ r.outcome.error.text[Len(r.outcome.error.text)]
                                  = Last(r.results[n].error.text)
    /\ \A c, d \in CallIds :
          (/\ calls[c].pc = "done" /\ calls[d].pc = "done"
           /\ calls[c].options = calls[d].options
           /\ AnonResults(calls[c]) = AnonResults(calls[d]))
          =>
          /\ calls[c].log = calls[d].log
          /\ calls[c].attempt = calls[d].attempt
          /\ calls[c].outcome.type = calls[d].outcome.type
          /\ calls[c].outcome.value = calls[d].outcome.value
          /\ Anon(calls[c].outcome.error) = Anon(calls[d].outcome.error)

C6_Witness ==
    /\ calls["c1"].pc = "done" /\ calls["c1"].completeCalls = 1
    /\ Len(calls["c1"].results) = 1
    /\ calls["c1"].outcome.type = "error"
    /\ calls["c1"].outcome.error.status = {401}
    /\ calls["c2"].pc = "done" /\ calls["c2"].completeCalls = 1
    /\ Len(calls["c2"].results) = 4
    /\ calls["c2"].outcome.type = "error"
    /\ calls["c2"].outcome.error.text = <<"timeout">>
    /\ calls["c1"].options = calls["c2"].options

\* The call failed while the provider was resolved or constructed.
FailedInConstruction(r) ==
    /\ r.kind = "enhance" /\ r.pc = "done" /\ r.outcome.type = "error"
    /\ r.completeCalls = 0
    /\ r.outcome.error.origin # "enhance"

\* The call failed in completePrompt.
FailedInCompletion(r) ==
    /\ r.kind = "enhance" /\ r.pc = "done" /\ r.outcome.type = "error"
    /\ r.completeCalls = 1

\* The messages of the construction-time validation errors.
IsValidationError(e) ==
    /\ e.isError
    /\ \/ e.text = <<"Gemini API key is required">>
       \/ e.text[1] = "Unsupported provider: "
       \/ e.text[1] = "Invalid baseUrl for provider \""
       \/ e.text[1] = "Invalid baseUrl protocol \""
       \/ e.text[1] = "API key is required for provider \""

\* C7 as claimed: whatever value the underlying operation fails with, the
\* caller of enhance receives that identical value after a terminal status or
\* after retry exhaustion, and a construction-time validation error reaches
\* the caller unchanged.
C7_PropagatesUnchanged ==
    \A c \in CallIds :
        LET r == calls[c]
        IN  /\ FailedInCompletion(r) => r.outcome.error = Last(r.results).error
            /\ FailedInConstruction(r) =>
                  /\ IsValidationError(r.outcome.error)
                  /\ r.outcome.error.status = {}

\* C7 as amended: an Error object the operation fails with reaches the caller
\* of enhance as the identical object; a thrown value that is no Error object
\* is replaced by a new Error carrying String(value) as its message and no
\* status (a thrown null or undefined by the TypeError of reading its status);
\* a construction-time validation error reaches the caller unchanged.
C7_PropagatesErrorObjects ==
    \A c \in CallIds :
        LET r == calls[c]
            thrown == Last(r.results).error
        IN  /\ FailedInCompletion(r) =>
                  /\ r.outcome.error = r.result.error
                  /\ r.outcome.error.isError
                  /\ thrown.isError => r.outcome.error = thrown
                  /\ (~thrown.isError /\ ~thrown.nullish) =>
                        /\ r.outcome.error # thrown
                        /\ r.outcome.error.text = thrown.text
                        /\ r.outcome.error.status = {}
                        /\ r.outcome.error.at = Len(r.results)
                  /\ thrown.nullish =>
                        /\ r.outcome.error # thrown
                        /\ r.outcome.error.status = {}
                        /\ r.outcome.error.text[1] = "Cannot read properties of "
                        /\ r.outcome.error.at = Len(r.results)
            /\ FailedInConstruction(r) =>
                  /\ IsValidationError(r.outcome.error)
                  /\ r.outcome.error.status = {}
                  /\ r.outcome.error.by = c
                  /\ Len(r.results) = 0

C7_Witness ==
    LET r == calls["c1"]
    IN  /\ FailedInCompletion(r)
        /\ Len(r.results) = 4
        /\ ~Last(r.results).error.isError
        /\ Last(r.results).error.text = <<"boom">>
        /\ r.outcome.error.isError
        /\ r.outcome.error.text = <<"boom">>

\* ------------------------------------------------------------- the server
RECURSIVE Repeat(_, _)
\* The string s written n times.
Repeat(s, n) == IF n = 0 THEN "" ELSE s \o Repeat(s, n - 1)

\* The text arguments of the tool calls: absent, empty, a number, a prompt, a
\* string of the greatest length allowed and one a character longer.
ServerTexts ==
    { NoText,
      [type |-> "string", length |-> 0, tokens |-> <<>>],
      [type |-> "number", length |-> 0, tokens |-> <<>>],
      [type |-> "string", length |-> 16, tokens |-> <<"write a function">>],
      [type |-> "string", length |-> MAX_TEXT_LENGTH, tokens |-> <<"long text">>],
      [type |-> "string", length |-> MAX_TEXT_LENGTH + 1, tokens |-> <<"long text">>] }

ServerRequests ==
    { [name |-> n, hasArguments |-> a, text |-> t, provider |-> p,
       model |-> Undefined, context |-> <<>>, template |-> tpl] :
        n \in {"enhance_prompt", "unknown_tool"}, a \in BOOLEAN, t \in ServerTexts,
        p \in {Undefined, "gemini", "unsupported"},
        tpl \in {<<>>, <<"No placeholder here">>} }
    \ { q \in [name : {"enhance_prompt", "unknown_tool"}, hasArguments : {FALSE},
                text : ServerTexts, provider : {Undefined, "gemini", "unsupported"},
                model : {Undefined}, context : {<<>>},
                template : {<<>>, <<"No placeholder here">>}] :
            q.text # NoText \/ q.provider # Undefined \/ q.template # <<>> }

\* What the vendor call fails with: a transient error, a terminal one, one
\* whose message holds an endpoint and a key, one with a very long message.
ServerShapes ==
    { [isError |-> TRUE, nullish |-> FALSE, status |-> {}, text |-> <<"timeout">>],
      [isError |-> TRUE, nullish |-> FALSE, status |-> {401}, text |-> <<"Unauthorized">>],
      [isError |-> TRUE, nullish |-> FALSE, status |-> {403},
       text |-> <<"POST ", "https://internal.example/v1", " with ",
                  "sk-abcdefgh12345678", " refused">>],
      [isError |-> TRUE, nullish |-> FALSE, status |-> {400},
       text |-> <<Repeat("0123456789", 51)>>] }

InitServer ==
    /\ env \in {EmptyEnv, AllKeysEnv}
    /\ config = ConfigWith(NoProviders)
    /\ calls = [c \in CallIds |-> IdleCall]
    /\ factory = NoFactory

NextServer ==
    \/ CallTool("c1", ServerRequests)
    \/ VendorResponds("c1")
    \/ VendorFails("c1", ServerShapes)
    \/ TimerFires("c1")

SpecServer == InitServer /\ [][NextServer]_vars

\* ------------------------------------------- enhance, templates and context
\* A Config with its templates.default and its options given.
PromptConfig(templateDefault, maxContextMessages, contextTruncateLength) ==
    [defaultProvider |-> "anthropic",
     providers |-> NoProviders,
     templates |-> [default |-> templateDefault],
     options |-> [maxContextMessages |-> maxContextMessages,
                  contextTruncateLength |-> contextTruncateLength]]

ConfigTemplates ==
    { <<>>, <<"Improve: ", PLACEHOLDER, " / ", PLACEHOLDER>>,
      <<"Bad template without placeholder">> }

\* options.maxContextMessages and options.contextTruncateLength: absent or set.
ContextLimits == {{}} \cup {{n} : n \in 0 .. MaxContextArg}

TruncateLengths == {{}, {3}}

PromptTexts == { <<"test">>, <<"cost: ", "$$", "5">>, <<"keep ", "$&", " and ", "$'">> }

PromptContexts ==
    { <<>>,
      << [role |-> "user", content |-> <<"msg1">>] >>,
      << [role |-> "user", content |-> <<"msg1">>],
         [role |-> "assistant", content |-> <<"T", "h", "i", "s", " is long">>],
         [role |-> "user", content |-> <<"msg3">>],
         [role |-> "assistant", content |-> <<"msg4">>] >> }

PromptTemplates ==
    { <<>>, <<"Make this better: ", PLACEHOLDER>>, <<"No placeholder here">> }

PromptRequests ==
    { Request(t, Undefined, Undefined, ctx, tpl) :
        t \in PromptTexts, ctx \in PromptContexts, tpl \in PromptTemplates }

PromptShapes ==
    { s \in ThrownShapes : s.text \in {<<"timeout">>, <<"Unauthorized">>} }

InitPrompt ==
    /\ env = AllKeysEnv
    /\ config \in { PromptConfig(t, m, l) :
                       t \in ConfigTemplates, m \in ContextLimits, l \in TruncateLengths }
    /\ calls = [c \in CallIds |-> IdleCall]
    /\ factory = NoFactory

NextPrompt ==
    \/ EnhanceStart("c1", PromptRequests)
    \/ VendorResponds("c1")
    \/ VendorFails("c1", PromptShapes)
    \/ TimerFires("c1")

SpecPrompt == InitPrompt /\ [][NextPrompt]_vars

\* ---------------------------------------------------- properties: enhance
\* The vendor response holds no text: no text block in an Anthropic response,
\* no choice or a null content in an OpenAI-compatible one.
EmptyContent(name, resp) ==
    IF name = "anthropic"
    THEN \A i \in 1 .. Len(resp) : resp[i].type # "text"
    ELSE IF name = "gemini"
    THEN FALSE
    ELSE Len(resp) = 0 \/ resp[1].text = Undefined

\* C16: when the vendor response holds no text, completePrompt resolves with
\* the empty string at that invocation (the first one when nothing failed
\* before, and none follows it), and enhance returns success = true with an
\* empty enhancedText; completePrompt never resolves with a null value.
C16_EmptyContentIsResult ==
    \A c \in CallIds :
        LET r == calls[c]
        IN  /\ (r.kind = "enhance" /\ Len(r.responses) > 0
                  /\ EmptyContent(r.provider.name, Last(r.responses))) =>
                  /\ r.pc = "done"
                  /\ Len(r.responses) = 1
                  /\ r.result = [type |-> "value", value |-> "", error |-> NoError]
                  /\ Invocations(r) = Len(r.results)
                  /\ \A i \in 1 .. Len(r.results) : r.results[i].ok <=> i = Len(r.results)
                  /\ r.completeCalls = 1
                  /\ r.outcome.type = "value"
                  /\ r.outcome.value.success
                  /\ r.outcome.value.enhancedText = ""
            /\ r.result.type = "value" => r.result.value # Undefined

C16_Witness ==
    LET r == calls["c1"]
    IN  /\ r.kind = "enhance"
        /\ r.provider.name = "openai"
        /\ r.responses = << << [type |-> "message", text |-> Undefined] >> >>
        /\ Invocations(r) = 1
        /\ r.outcome.type = "value"
        /\ r.outcome.value.enhancedText = ""

\* The backend name enhance resolves for the request of call r.
RequestedProvider(r) == Or(r.options.provider, config.defaultProvider)

\* The call got past the template check: its prompt was assembled.
PastTemplateCheck(r) == r.kind = "enhance" /\ r.prompt # <<>>

\* C17: whenever enhance returns, the result has success = true, enhancedText
\* equal to the text completePrompt resolved with, and provider and model
\* equal to the name and model of the backend resolved for this call; that
\* backend is the request's provider when given, else config.defaultProvider,
\* and its model is the request's model when given.
C17_ResultProvenance ==
    \A c \in CallIds :
        LET r == calls[c]
        IN  (r.kind = "enhance" /\ r.outcome.type = "value") =>
              /\ r.outcome.value.success
              /\ r.result.type = "value"
              /\ r.outcome.value.enhancedText = r.result.value
              /\ r.outcome.value.enhancedText =
                    Extract(r.provider.name, Last(r.responses))
              /\ r.provider # NoInstance
              /\ r.provider.by = c
              /\ r.outcome.value.provider = r.provider.name
              /\ r.outcome.value.model = r.provider.model
              /\ r.provider.name = RequestedProvider(r)
              /\ Truthy(r.options.model) => r.provider.model = r.options.model
              /\ ~Truthy(r.options.model) =>
                    r.provider.model =
                        Or(StoredProviderConfig(config, r.provider.name).model,
                           DEFAULT_MODELS[r.provider.name])

C17_Witness ==
    LET r == calls["c1"]
    IN  /\ r.kind = "enhance"
        /\ r.options.provider = Undefined
        /\ r.options.model = "gpt-4-turbo"
        /\ r.outcome.type = "value"
        /\ r.outcome.value =
              [success |-> TRUE, enhancedText |-> "Enhanced",
               provider |-> "anthropic", model |-> "gpt-4-turbo"]

\* C18: when the resolution of the backend fails, completePrompt is never
\* invoked and enhance fails with the error of the resolution; when
\* completePrompt fails, enhance fails with the error of completePrompt;
\* enhance returns a result only after completePrompt resolved, and then one
\* with success = true; it resolves at most once, for the requested name, and
\* calls completePrompt at most once.
C18_NoLocalRecovery ==
    \A c \in CallIds :
        LET r == calls[c]
            made == createProvider(RequestedProvider(r), config, env, r.options.model, c)
        IN  r.kind = "enhance" =>
              /\ (PastTemplateCheck(r) /\ made.threw) =>
                    /\ r.provider = NoInstance
                    /\ r.completeCalls = 0
                    /\ r.sent = <<>>
                    /\ r.outcome.type = "error"
                    /\ r.outcome.error = made.error
              /\ r.result.type = "error" =>
                    /\ r.outcome.type = "error"
                    /\ r.outcome.error = r.result.error
              /\ r.outcome.type = "value" =>
                    /\ r.outcome.value.success
                    /\ r.result.type = "value"
                    /\ \A i \in 1 .. Len(r.results) - 1 : NonTerminalFailure(r.results[i])
              /\ r.created <= 1
              /\ r.completeCalls <= 1
              /\ r.provider # NoInstance => r.provider.name = RequestedProvider(r)

C18_Witness ==
    LET r == calls["c1"]
    IN  /\ r.kind = "enhance"
        /\ r.options.provider = "gemini"
        /\ r.completeCalls = 1
        /\ Len(r.results) = 1
        /\ r.result.type = "error"
        /\ r.result.error.status = {403}
        /\ r.outcome.type = "error"
        /\ r.outcome.error = r.result.error

\* C19: a vendor call is issued only by an invocation of the operation inside
\* completePrompt, on a backend whose construction succeeded; a request that
\* fails the template check or the construction-time validation has issued
\* no vendor call.
C19_NoNetworkInConstruction ==
    \A c \in CallIds :
        LET r == calls[c]
        IN  /\ Len(r.sent) = Invocations(r)
            /\ r.sent # <<>> =>
                  /\ r.provider # NoInstance
                  /\ r.created = 1
                  /\ r.completeCalls = 1
            /\ (r.kind = "enhance" /\ r.outcome.type = "error"
                  /\ (r.outcome.error.origin = "enhance"
                        \/ IsValidationError(r.outcome.error))) =>
                  /\ r.sent = <<>>
                  /\ r.inflight = 0
                  /\ r.responses = <<>>
                  /\ r.results = <<>>
                  /\ r.completeCalls = 0

C19_Witness ==
    LET r == calls["c1"]
    IN  /\ r.kind = "enhance"
        /\ r.options.provider = "openai"
        /\ r.outcome.type = "error"
        /\ r.outcome.error.origin = "OpenAiCompatibleProvider.url"
        /\ r.created = 1
        /\ r.sent = <<>>

\* C20 (as stated): every enhance call past the template check has resolved
\* exactly one new backend instance and invoked completePrompt exactly once on
\* it, and no two calls use the same instance.
C20_OneBackendPerCall ==
    \A c \in CallIds :
        LET r == calls[c]
        IN  PastTemplateCheck(r) =>
              /\ r.created = 1
              /\ r.provider # NoInstance
              /\ r.provider.by = c
              /\ r.completeCalls = 1
              /\ \A d \in CallIds \ {c} : calls[d].provider # r.provider

\* C20 (amended): every enhance call past the template check calls
\* createProvider once; when that returns a backend, the backend was
\* constructed in this call, completePrompt is invoked exactly once on it, and
\* no other call uses it; when it throws (an unsupported name constructs
\* nothing, a rejected configuration fails in the one constructor run), the
\* call has no backend and completePrompt is not invoked.
C20_FreshBackendPerCall ==
    \A c \in CallIds :
        LET r == calls[c]
        IN  PastTemplateCheck(r) =>
              /\ r.created = (IF RequestedProvider(r) \in KnownNames THEN 1 ELSE 0)
              /\ r.provider # NoInstance =>
                    /\ r.created = 1
                    /\ r.provider.by = c
                    /\ r.completeCalls = 1
                    /\ \A d \in CallIds \ {c} : calls[d].provider # r.provider
              /\ r.provider = NoInstance =>
                    /\ r.completeCalls = 0
                    /\ r.outcome.type = "error"

C20_Witness ==
    /\ PastTemplateCheck(calls["c1"])
    /\ PastTemplateCheck(calls["c2"])
    /\ calls["c1"].options = calls["c2"].options
    /\ calls["c1"].provider.name = "gemini"
    /\ calls["c2"].provider.name = "gemini"
    /\ calls["c1"].provider # calls["c2"].provider
    /\ calls["c1"].outcome.type = "value"
    /\ calls["c2"].pc = "sleeping"

\* ------------------------------------------- properties: withRetry, events
Debugs(r) == Cardinality(Events(r, "debug"))

\* C21: logger.debug is called for every non-terminal failure that is followed
\* by a retry, right after that failure and right before the backoff sleep,
\* and for no other failure: not for a failure with status 400, 401 or 403 and
\* not for the failure that exhausts the budget; so in a completed call the
\* number of debug events equals the number of sleeps and the number of
\* invocations minus one.
C21_DebugEvents ==
    \A c \in CallIds :
        LET r == calls[c]
            log == r.log
        IN  r.kind = "withRetry" =>
              /\ \A i \in Events(r, "rejected") :
                    LET a == log[i].attempt
                    IN  (i < Len(log) /\ log[i + 1].ev = "debug") <=>
                            (NonTerminalFailure(r.results[a + 1]) /\ a < r.maxRetries)
              /\ \A j \in Events(r, "debug") :
                    /\ j > 1 /\ log[j - 1].ev = "rejected"
                    /\ log[j].attempt = log[j - 1].attempt + 1
                    /\ j < Len(log) /\ log[j + 1].ev = "sleep"
                    /\ log[j].arg = log[j + 1].arg
              /\ Debugs(r) = Sleeps(r)
              /\ r.pc = "done" => Debugs(r) = Invocations(r) - 1

C21_Witness ==
    LET r == calls["c1"]
    IN  /\ r.kind = "withRetry"
        /\ r.pc = "done"
        /\ r.maxRetries = 3
        /\ Invocations(r) = 3
        /\ Debugs(r) = 2
        /\ TerminalFailure(Last(r.results))

\* ------------------------------------------------ properties: configuration
\* C22: for every known backend name and every configuration the key handed to
\* the constructor is the environment value of that name (no key when the
\* environment holds none), and an apiKey of the stored per-backend config is
\* never the backend's key.
C22_KeysOnlyFromEnv ==
    (factory.called /\ factory.via = "createProvider"
       /\ factory.name \in KnownNames) =>
        LET envKey == env[ENV_KEY_MAP[factory.name]]
        IN  /\ Truthy(envKey) => factory.out.ctorArg.apiKey = envKey
            /\ ~Truthy(envKey) => ~Truthy(factory.out.ctorArg.apiKey)
            /\ ~factory.out.threw =>
                  factory.out.instance.clientKey \in {envKey, Undefined, ""}

\* ------------------------------------------ properties: templates, context
\* The template the call of r is to use: the request's when non-empty, else
\* the configured default when non-empty, else the built-in one.
TemplateInForce(r) ==
    IF r.options.template # <<>> THEN r.options.template
    ELSE IF config.templates.default # <<>> THEN config.templates.default
    ELSE DEFAULT_ENHANCE_TEMPLATE

TemplateErrorText == <<"Template must contain the ", "${userInput}", " placeholder">>

C24_VerbatimSubstitution ==
    \A c \in CallIds :
        LET r == calls[c]
            t == TemplateInForce(r)
            hits == {i \in 1 .. Len(t) : t[i] = "${userInput}"}
            first == CHOOSE i \in hits : \A j \in hits : i <= j
            input == prepareInput(r.options.text, r.options.context, config)
        IN  PastTemplateCheck(r) =>
              /\ r.prompt = SubSeq(t, 1, first - 1) \o input
                               \o SubSeq(t, first + 1, Len(t))
              /\ \A k \in 1 .. Len(r.sent) : r.sent[k] = r.prompt

\* The last n elements of seq, all of them when it has fewer.
LastN(seq, n) ==
    LET k == IF n < Len(seq) THEN n ELSE Len(seq)
    IN  SubSeq(seq, Len(seq) - k + 1, Len(seq))

\* C25: with maxContextMessages = N (N >= 0, 10 when absent) the prompt holds
\* exactly the last min(N, length) messages of the context in their order;
\* an absent or empty context leaves the text as it is, without the header.
C25_ContextWindow ==
    \A c \in CallIds :
        LET r == calls[c]
            ctx == r.options.context
            N == Coalesce(config.options.maxContextMessages, 10)
            l == Coalesce(config.options.contextTruncateLength, 500)
            included == LastN(ctx, N)
            lines == [i \in 1 .. Len(included) |-> FormatMessage(included[i], l)]
            input == IF Len(ctx) = 0 THEN r.options.text
                     ELSE r.options.text
                          \o <<"\n\nUse the following previous conversation context as needed:\n">>
                          \o JoinLines(lines)
        IN  PastTemplateCheck(r) =>
              r.prompt = ReplacePlaceholder(TemplateInForce(r), input)

\* ------------------------------------------------------------- the server
\* Nothing of enhance has run for the call: no backend resolved, nothing sent.
NotDispatched(r) ==
    /\ r.kind = "none"
    /\ r.provider = NoInstance
    /\ r.created = 0
    /\ r.completeCalls = 0
    /\ r.sent = <<>>
    /\ r.outcome = NoOutcome

\* The text of the request is missing, empty, not a string or too long.
BadText(q) ==
    \/ ~q.hasArguments
    \/ q.text.type # "string"
    \/ q.text.length = 0
    \/ q.text.length > 100000

\* C26: a CallTool request for a tool other than enhance_prompt raises
\* MethodNotFound, and one whose text is missing, empty, not a string or longer
\* than 100000 characters raises InvalidParams; in each of these cases enhance
\* is not invoked: no backend is resolved and no vendor call is made.
C26_ValidationPrecedesDispatch ==
    \A c \in CallIds :
        LET r == calls[c]
            q == r.handler.request
        IN  r.handler.state # "none" =>
              /\ q.name # "enhance_prompt" =>
                    /\ r.handler.state = "threw"
                    /\ r.handler.error.origin = "McpError.MethodNotFound"
                    /\ NotDispatched(r)
              /\ (q.name = "enhance_prompt" /\ BadText(q)) =>
                    /\ r.handler.state = "threw"
                    /\ r.handler.error.origin = "McpError.InvalidParams"
                    /\ NotDispatched(r)

\* The request passed the checks of the handler.
Validated(q) == q.name = "enhance_prompt" /\ ~BadText(q)

\* C27: for a validated request, a failure of enhance that is no McpError makes
\* the handler return a response with isError true whose text starts with
\* "Enhancement failed: ", and the handler does not throw; a success of enhance
\* makes it return a response without isError that carries the enhanced text
\* and the provider and model as metadata.
C27_FailuresReturned ==
    \A c \in CallIds :
        LET r == calls[c]
            h == r.handler
        IN  (h.state # "none" /\ Validated(h.request)) =>
              /\ h.state # "threw"
              /\ (r.outcome.type = "error" /\ ~IsMcpError(r.outcome.error)) =>
                    /\ h.state = "returned"
                    /\ h.response.isError
                    /\ Head(h.response.text) = "Enhancement failed: "
              /\ r.outcome.type = "value" =>
                    /\ h.state = "returned"
                    /\ ~h.response.isError
                    /\ h.response.text = <<r.outcome.value.enhancedText>>
                    /\ h.response.hasMeta
                    /\ h.response.provider = r.outcome.value.provider
                    /\ h.response.model = r.outcome.value.model

\* The retries of a validated request are exhausted and the handler has
\* returned the failure.
C27_Witness ==
    LET r == calls["c1"]
    IN  /\ Validated(r.handler.request)
        /\ Len(r.results) = DefaultMaxRetries + 1
        /\ r.outcome.type = "error"
        /\ r.handler.state = "returned"
        /\ r.handler.response.isError

\* ------------------------------------------------- properties: identity
\* The instances in existence: the one the last factory or constructor call
\* returned and those the calls hold.
Instances ==
    (IF factory.called /\ ~factory.out.threw THEN {factory.out.instance} ELSE {})
    \cup {calls[c].provider : c \in {d \in CallIds : calls[d].provider # NoInstance}}

\* C28: every instance that createProvider or a constructor returns has a
\* model that is not empty, and the name and the model of the instance a call
\* holds never change, whatever completePrompt calls, retries and failures
\* happen.
C28_BackendIdentity ==
    /\ [](\A inst \in Instances : inst.model # Undefined /\ inst.model # "")
    /\ [][\A c \in CallIds :
            calls[c].provider # NoInstance =>
              /\ calls'[c].provider.name = calls[c].provider.name
              /\ calls'[c].provider.model = calls[c].provider.model]_vars

\* Two completePrompt calls on the one instance that was constructed with an
\* empty model have ended, one of them after a retry.
C28_Witness ==
    /\ factory.called /\ ~factory.out.threw
    /\ factory.out.ctorArg.model = ""
    /\ \A c \in CallIds :
          /\ calls[c].pc = "done"
          /\ calls[c].provider = factory.out.instance
    /\ Len(calls["c1"].results) > 1
    /\ calls["c1"].result.type = "error"

C30_TerminatesWithinBudget ==
    /\ [](\A c \in CallIds :
            LET r == calls[c]
            IN  /\ Invocations(r) <= r.maxRetries + 1
                /\ Sleeps(r) <= r.maxRetries
                /\ (r.kind = "withRetry" /\ r.pc = "done") =>
                      /\ r.result.type \in {"value", "error"}
                      /\ Invocations(r) >= 1)
    /\ (calls["c1"].kind = "withRetry" ~> calls["c1"].pc = "done")

\* A call with the largest budget has raised after using all of it.
C30_Witness ==
    LET r == calls["c1"]
    IN  /\ r.kind = "withRetry" /\ r.pc = "done"
        /\ r.maxRetries = MaxRetriesArg
        /\ r.result.type = "error"
        /\ Invocations(r) = r.maxRetries + 1
        /\ Sleeps(r) = r.maxRetries

====
